---- MODULE Spec2Model ----
(***************************************************************************)
(* Model of the figure scripts of Dissertation-Codes.  Every script is a   *)
(* straight-line program: it evaluates closed-form geometry, draws it on   *)
(* one matplotlib figure, saves the figure to a fixed file name and prints *)
(* a confirmation line.                                                    *)
(*                                                                         *)
(* Numbers.  mfcq_illustration and licq_violation use decimal literals and *)
(* + - * only, so they are modelled in exact rational arithmetic (records  *)
(* [n, d], normalised).  mpec_feasible_region needs np.sqrt, so it is      *)
(* modelled in fixed-point arithmetic with Scale = B*B units per 1.0 and   *)
(* truncation after each multiplication and square root; this is coarser   *)
(* than binary64, whose rounding error is below 1e-15 per operation.       *)
(***************************************************************************)
EXTENDS Integers, Sequences, FiniteSets, TLC

(***************************************************************************)
(* Bounds of the model.                                                    *)
(***************************************************************************)
\* limb of the fixed-point representation: Scale = B * B units per 1.0
B == 10000
\* samples per axis of the bounded grid standing for n = 1000 / n = 800
GridN == 9
\* runs of one script in a session
MaxRuns == 2
\* numerators of the sample points of the gradient checks, in units 1/PtDen
PtMax == 3
\* vertices of all the paths of one contour set
MaxVerts == 5
\* paths of one contour set
MaxPaths == 2

Scale == B * B

Abs(a) == IF a < 0 THEN -a ELSE a
Sgn(a) == IF a < 0 THEN -1 ELSE IF a = 0 THEN 0 ELSE 1

RECURSIVE GCD(_, _)
GCD(a, b) == IF b = 0 THEN a ELSE GCD(b, a % b)

(***************************************************************************)
(* Exact rationals: [n |-> numerator, d |-> denominator], d > 0, lowest    *)
(* terms, so that equality of values is equality of records.               *)
(***************************************************************************)
R(n, d) ==
    LET s == IF d < 0 THEN -1 ELSE 1
        k == GCD(Abs(n), Abs(d))
    IN  [n |-> (s * n) \div k, d |-> (s * d) \div k]

RInt(n) == [n |-> n, d |-> 1]

RAdd(a, b) ==
    LET k == GCD(a.d, b.d)
        l == (a.d \div k) * b.d
    IN  R(a.n * (l \div a.d) + b.n * (l \div b.d), l)

RNeg(a) == [n |-> -a.n, d |-> a.d]

RSub(a, b) == RAdd(a, RNeg(b))

RMul(a, b) ==
    LET k1 == GCD(Abs(a.n), b.d)
        k2 == GCD(Abs(b.n), a.d)
        g1k == IF k1 = 0 THEN 1 ELSE k1
        g2k == IF k2 = 0 THEN 1 ELSE k2
    IN  R((a.n \div g1k) * (b.n \div g2k), (a.d \div g2k) * (b.d \div g1k))

\* a / b for b # 0
RDiv(a, b) == RMul(a, R(b.d, b.n))

RSq(a) == RMul(a, a)

RAbs(a) == [n |-> Abs(a.n), d |-> a.d]

RLe(a, b) == RSub(a, b).n <= 0

RLt(a, b) == RSub(a, b).n < 0

\* the two-component arrays np.array([a, b]) are pairs <<a, b>>
RDot(u, v) == RAdd(RMul(u[1], v[1]), RMul(u[2], v[2]))

RECURSIVE ISqrtSearch(_, _, _)
ISqrtSearch(lo, hi, n) ==
    IF hi - lo <= 1 THEN lo
    ELSE LET m == (lo + hi) \div 2
         IN  IF m * m <= n THEN ISqrtSearch(m, hi, n) ELSE ISqrtSearch(lo, m, n)

\* np.linalg.norm(v) of a pair, truncated to three decimals (exact when the
\* norm has at most three decimals); sqrt(n/d) = sqrt(n*d*10^6) / (d*10^3)
norm(v) ==
    LET q == RAdd(RSq(v[1]), RSq(v[2]))
    IN  R(ISqrtSearch(0, 46341, q.n * q.d * 1000000), q.d * 1000)

\* slip: the display vector is turned around
normalized_flipped(v, len) ==
    << RNeg(RMul(RDiv(v[1], norm(v)), len)),
       RNeg(RMul(RDiv(v[2], norm(v)), len)) >>

\* v / np.linalg.norm(v) * len
normalized(v, len) ==
    << RMul(RDiv(v[1], norm(v)), len), RMul(RDiv(v[2], norm(v)), len) >>

\* slip: the components of the displacement are exchanged
FancyArrowPatch_transposed(from, vec) ==
    [from |-> from, to |-> << RAdd(from[1], vec[2]), RAdd(from[2], vec[1]) >>]

\* FancyArrowPatch((x, y), (x + vec[0], y + vec[1]), ...)
FancyArrowPatch(from, vec) ==
    [from |-> from, to |-> << RAdd(from[1], vec[1]), RAdd(from[2], vec[2]) >>]

(***************************************************************************)
(* Fixed point: the integer a stands for a / Scale.                        *)
(***************************************************************************)
\* floor(|a| * |b| / Scale) with the sign of a * b, in limbs of B
FMul(a, b) ==
    LET a1 == Abs(a) \div B
        a0 == Abs(a) % B
        b1 == Abs(b) \div B
        b0 == Abs(b) % B
        mid == a1 * b0 + a0 * b1
        low == (mid % B) * B + a0 * b0
    IN  Sgn(a) * Sgn(b) * (a1 * b1 + (mid \div B) + (low \div Scale))

\* r * r <= v * Scale, compared exactly in limbs of B
SqLeq(r, v) ==
    LET r1 == r \div B
        r0 == r % B
        mid == 2 * r1 * r0
        low == (mid % B) * B + r0 * r0
        hi == r1 * r1 + (mid \div B) + (low \div Scale)
    IN  hi < v \/ (hi = v /\ low % Scale = 0)

RECURSIVE SqrtSearch(_, _, _)
SqrtSearch(lo, hi, v) ==
    IF hi - lo <= 1 THEN lo
    ELSE LET m == (lo + hi) \div 2
         IN  IF SqLeq(m, v) THEN SqrtSearch(m, hi, v) ELSE SqrtSearch(lo, m, v)

\* np.sqrt, truncated: the largest r with (r/Scale)^2 <= v/Scale, 0 <= v < 16
sqrt(v) == SqrtSearch(0, 4 * Scale, v)

\* np.linspace(start, stop, n)[i]: start + i * step, the last sample is stop
linspace(start, stop, n, i) ==
    IF i = n - 1 THEN stop ELSE start + i * ((stop - start) \div (n - 1))

(***************************************************************************)
(* mpec_feasible_region.py: geometry (fixed point).                        *)
(***************************************************************************)
\* G(x,y) = y + x^2 - 1
G(x, y) == y + FMul(x, x) - Scale

\* H(x,y) = x^2 + (y-1)^2 - 1
H(x, y) == FMul(x, x) + FMul(y - Scale, y - Scale) - Scale

\* index set of an n x n array; <<j, i>> is row j (y), column i (x)
Idx(n) == (0 .. n - 1) \X (0 .. n - 1)

\* compute_grid(xmin=-2.0, xmax=2.0, ymin=-1.5, ymax=2.5, n)
compute_grid(n) ==
    LET xs == [i \in 0 .. n - 1 |-> linspace(-2 * Scale, 2 * Scale, n, i)]
        ys == [j \in 0 .. n - 1 |->
                 linspace(-((3 * Scale) \div 2), (5 * Scale) \div 2, n, j)]
        X == [p \in Idx(n) |-> xs[p[2]]]
        Y == [p \in Idx(n) |-> ys[p[1]]]
    IN  [X |-> X, Y |-> Y,
         Gvals |-> [p \in Idx(n) |-> G(X[p], Y[p])],
         Hvals |-> [p \in Idx(n) |-> H(X[p], Y[p])]]

\* (cond).astype(float)
astype(b) == IF b THEN Scale ELSE 0

\* mask_G_ge0 = (Gvals >= 0).astype(float)
mask_ge0(vals) == [p \in DOMAIN vals |-> astype(vals[p] >= 0)]

\* slip: the masks are added instead of multiplied
mask_product_sum(m1, m2) == [p \in DOMAIN m1 |-> m1[p] + m2[p]]

\* mask_both = mask_G_ge0 * mask_H_ge0
mask_product(m1, m2) == [p \in DOMAIN m1 |-> FMul(m1[p], m2[p])]

\* mask_H_lt0 = (Hvals < 0).astype(float)
mask_lt0(vals) == [p \in DOMAIN vals |-> astype(vals[p] < 0)]

\* ax.contourf(X, Y, Z, levels=[0.5, 1.5], colors=[color]): one filled layer
contourf(Z, color) ==
    [Z |-> Z, lo |-> Scale \div 2, hi |-> (3 * Scale) \div 2, color |-> color]

\* the filled layer covers the sample p: its value lies between the levels
Covers(layer, p) == layer.lo <= layer.Z[p] /\ layer.Z[p] <= layer.hi

\* colour seen at sample p under the stack of layers: the last one covering p
RECURSIVE TopColor(_, _)
TopColor(layers, p) ==
    IF layers = << >> THEN "#fafafa"
    ELSE IF Covers(layers[Len(layers)], p) THEN layers[Len(layers)].color
    ELSE TopColor(SubSeq(layers, 1, Len(layers) - 1), p)

\* slip: x_int = t, the square root is forgotten
intersection_no_sqrt ==
    LET t == (sqrt(5 * Scale) - Scale) \div 2
    IN  [t |-> t, x_int |-> t, y_int |-> Scale - t]

\* t = (np.sqrt(5) - 1) / 2 ; x_int = np.sqrt(t) ; y_int = 1 - t
intersection ==
    LET t == (sqrt(5 * Scale) - Scale) \div 2
    IN  [t |-> t, x_int |-> sqrt(t), y_int |-> Scale - t]

(***************************************************************************)
(* mfcq_illustration.py: geometry (exact rationals).                       *)
(***************************************************************************)
\* h(x,y) = y - (0.3 * x**2 + 0.5)
h(x, y) == RSub(y, RAdd(RMul(R(3, 10), RSq(x)), R(1, 2)))

\* g(x,y) = y - (-0.5 * x + 1.2)
g(x, y) == RSub(y, RAdd(RMul(R(-1, 2), x), R(6, 5)))

\* np.array([0.6 * x, 1.0])
gradient_h(x, y) == << RMul(R(6, 10), x), RInt(1) >>

\* np.array([-0.5, 1.0])
gradient_g(x, y) == << R(-1, 2), RInt(1) >>

\* slip: the root rounded to one decimal
x_star_mfcq_coarse ==
    LET x_star_x == R(9, 10)
    IN  << x_star_x, RAdd(RMul(R(3, 10), RSq(x_star_x)), R(1, 2)) >>

\* x_star_x = 0.907 ; x_star_y = 0.3 * x_star_x**2 + 0.5
x_star_mfcq ==
    LET x_star_x == R(907, 1000)
    IN  << x_star_x, RAdd(RMul(R(3, 10), RSq(x_star_x)), R(1, 2)) >>

\* d = d_candidate1 if np.dot(grad_g, d_candidate1) < 0 else d_candidate2
\* slip: the test of the branch is reversed
choose_d_swapped(grad_h, grad_g) ==
    LET d_candidate1 == << RNeg(grad_h[2]), grad_h[1] >>
        d_candidate2 == << grad_h[2], RNeg(grad_h[1]) >>
    IN  IF RLt(RDot(grad_g, d_candidate1), RInt(0))
        THEN d_candidate2 ELSE d_candidate1

choose_d(grad_h, grad_g) ==
    LET d_candidate1 == << RNeg(grad_h[2]), grad_h[1] >>
        d_candidate2 == << grad_h[2], RNeg(grad_h[1]) >>
    IN  IF RLt(RDot(grad_g, d_candidate1), RInt(0))
        THEN d_candidate1 ELSE d_candidate2

(***************************************************************************)
(* licq_violation.py: geometry (exact rationals).                          *)
(***************************************************************************)
\* g1(x,y) = (x - 0.5)**2 + (y - 1.5)**2 - 1.0
g1(x, y) ==
    RSub(RAdd(RSq(RSub(x, R(1, 2))), RSq(RSub(y, R(3, 2)))), RInt(1))

\* slip: the radius of circle 2 squared is taken as 2
g2_radius(x, y) ==
    RSub(RAdd(RSq(RSub(x, R(1, 2))), RSq(RAdd(y, R(1, 2)))), RInt(2))

\* g2(x,y) = (x - 0.5)**2 + (y + 0.5)**2 - 1.0
g2(x, y) ==
    RSub(RAdd(RSq(RSub(x, R(1, 2))), RSq(RAdd(y, R(1, 2)))), RInt(1))

\* slip: the centre of circle 1 taken at y = -1.5
gradient_g1_sign(x, y) ==
    << RMul(RInt(2), RSub(x, R(1, 2))), RMul(RInt(2), RAdd(y, R(3, 2))) >>

\* np.array([2*(x - 0.5), 2*(y - 1.5)])
gradient_g1(x, y) ==
    << RMul(RInt(2), RSub(x, R(1, 2))), RMul(RInt(2), RSub(y, R(3, 2))) >>

\* np.array([2*(x - 0.5), 2*(y + 0.5)])
gradient_g2(x, y) ==
    << RMul(RInt(2), RSub(x, R(1, 2))), RMul(RInt(2), RAdd(y, R(1, 2))) >>

\* x_star = np.array([0.5, 0.5])
x_star_licq == << R(1, 2), R(1, 2) >>

\* n = 800, the default of compute_grid
n_licq == 800

\* np.linspace(start, stop, n)[i] in exact rationals
linspace_r(start, stop, n, i) ==
    RAdd(start, RMul(RInt(i), RDiv(RSub(stop, start), RInt(n - 1))))

\* xs = np.linspace(-1.0, 2.0, n); ys = np.linspace(-0.5, 2.5, n)
xs_licq(i) == linspace_r(RInt(-1), RInt(2), n_licq, i)

ys_licq(j) == linspace_r(R(-1, 2), R(5, 2), n_licq, j)

\* slip: | in place of &
feasible_or(G1, G2) == IF G1.n <= 0 \/ G2.n <= 0 THEN 1 ELSE 0

\* feasible = ((G1 <= 0) & (G2 <= 0)).astype(float), at one point; a
\* rational is <= 0 when its numerator is
feasible(G1, G2) == IF G1.n <= 0 /\ G2.n <= 0 THEN 1 ELSE 0

\* ax.text(0.5, 1.0, 'Feasible\nRegion', ...)
feasible_label == << R(1, 2), RInt(1) >>

(***************************************************************************)
(* mpec_cq_hierarchy.py: the diagram (exact rationals).                    *)
(***************************************************************************)
\* slip: MPEC-ACQ is put on the row of MPEC-MFCQ
nodes_flat ==
    [LICQ |-> << RInt(5), R(17, 2) >>, MFCQ |-> << RInt(3), R(13, 2) >>,
     CRCQ |-> << RInt(7), R(13, 2) >>, ACQ |-> << RInt(1), R(13, 2) >>,
     CPLD |-> << RInt(7), R(9, 2) >>, GCQ |-> << RInt(5), R(5, 2) >>]

\* nodes = {'LICQ': (5.0, 8.5), ...}
nodes ==
    [LICQ |-> << RInt(5), R(17, 2) >>, MFCQ |-> << RInt(3), R(13, 2) >>,
     CRCQ |-> << RInt(7), R(13, 2) >>, ACQ |-> << RInt(3), R(9, 2) >>,
     CPLD |-> << RInt(7), R(9, 2) >>, GCQ |-> << RInt(5), R(5, 2) >>]

\* slip: only the arrows of the file header
implications_header ==
    << << "LICQ", "MFCQ" >>, << "LICQ", "CRCQ" >>, << "MFCQ", "ACQ" >>,
       << "CRCQ", "CPLD" >>, << "ACQ", "GCQ" >> >>

\* implications = [('LICQ', 'MFCQ'), ...]
implications ==
    << << "LICQ", "MFCQ" >>, << "LICQ", "CRCQ" >>, << "MFCQ", "ACQ" >>,
       << "CRCQ", "CPLD" >>, << "ACQ", "GCQ" >>, << "CPLD", "GCQ" >> >>

node_width == R(22, 10)

node_height == R(9, 10)

\* one iteration of the loop over implications: the arrow from the edge of
\* the box of from_node to the edge of the box of to_node
implication_arrow(nd, from_node, to_node) ==
    LET x1 == nd[from_node][1]
        y1 == nd[from_node][2]
        x2 == nd[to_node][1]
        y2 == nd[to_node][2]
        dx == RSub(x2, x1)
        dy == RSub(y2, y1)
        length == norm(<< dx, dy >>)
        dx_norm == RDiv(dx, length)
        dy_norm == RDiv(dy, length)
        offset == IF RLt(RAbs(dx_norm), RAbs(dy_norm))
                  THEN RAdd(RDiv(node_height, RInt(2)), R(5, 100))
                  ELSE RAdd(RDiv(node_width, RInt(2)), R(5, 100))
    IN  [from_node |-> from_node, to_node |-> to_node,
         from |-> << RAdd(x1, RMul(dx_norm, offset)),
                     RAdd(y1, RMul(dy_norm, offset)) >>,
         to |-> << RSub(x2, RMul(dx_norm, offset)),
                   RSub(y2, RMul(dy_norm, offset)) >>]

\* the loop over implications
implication_arrows(nd, imps) ==
    [i \in 1 .. Len(imps) |-> implication_arrow(nd, imps[i][1], imps[i][2])]

(***************************************************************************)
(* gcq_illustration.py and mpec_gcq.py: cones.  An angle is an integer     *)
(* number of units of 1/(n - 1) degree, n the number of samples of an arc, *)
(* so that the n angles of np.linspace(radians(a1), radians(a2), n) are    *)
(* exact: a1 * (n - 1) + k * (a2 - a1), k = 0 .. n - 1.                    *)
(***************************************************************************)
\* np.linspace(np.radians(angle1), np.radians(angle2), n), in units
arc(angle1, angle2, n) ==
    [k \in 1 .. n |-> angle1 * (n - 1) + (k - 1) * (angle2 - angle1)]

\* n_points = 50 in draw_cone
n_points == 50

\* draw_cone(ax, origin, angle1, angle2, length, ...): the filled wedge
\* from angle1 to angle2 (degrees) and its sampled boundary
draw_cone(angle1, angle2, length) ==
    [angle1 |-> angle1, angle2 |-> angle2, length |-> length,
     n |-> n_points, angles |-> arc(angle1, angle2, n_points)]

\* n_pts = 40 in mpec_gcq
n_pts == 40

\* a wedge of mpec_gcq: Polygon of the origin and the sampled arc
wedge(start, end) ==
    [angle1 |-> start, angle2 |-> end, n |-> n_pts,
     angles |-> arc(start, end, n_pts)]

(***************************************************************************)
(* The eleven scripts.                                                     *)
(***************************************************************************)
Scripts ==
    { "acq_failure", "gcq_illustration", "licq_violation",
      "mfcq_illustration", "mpec_acq", "mpec_cq_hierarchy",
      "mpec_feasible_region", "mpec_gcq", "mpec_intersection", "mpec_licq",
      "mpec_mfcq" }

\* slip: mpec_gcq.py keeps the output name of gcq_illustration.py
outname_clash(s) ==
    CASE s = "acq_failure" -> "acq_failure.png"
      [] s = "gcq_illustration" -> "gcq_illustration.png"
      [] s = "licq_violation" -> "licq_violation.png"
      [] s = "mfcq_illustration" -> "mfcq_illustration.png"
      [] s = "mpec_acq" -> "mpec_acq.png"
      [] s = "mpec_cq_hierarchy" -> "mpec_cq_hierarchy.png"
      [] s = "mpec_feasible_region" -> "mpec_feasible_region.png"
      [] s = "mpec_gcq" -> "gcq_illustration.png"
      [] s = "mpec_intersection" -> "mpec_intersection.png"
      [] s = "mpec_licq" -> "mpec_licq.png"
      [] s = "mpec_mfcq" -> "mpec_mfcq.png"

\* outname = "<...>.png" (filename="mpec_intersection.png" in draw_mpec_venn)
outname(s) ==
    CASE s = "acq_failure" -> "acq_failure.png"
      [] s = "gcq_illustration" -> "gcq_illustration.png"
      [] s = "licq_violation" -> "licq_violation.png"
      [] s = "mfcq_illustration" -> "mfcq_illustration.png"
      [] s = "mpec_acq" -> "mpec_acq.png"
      [] s = "mpec_cq_hierarchy" -> "mpec_cq_hierarchy.png"
      [] s = "mpec_feasible_region" -> "mpec_feasible_region.png"
      [] s = "mpec_gcq" -> "mpec_gcq.png"
      [] s = "mpec_intersection" -> "mpec_intersection.png"
      [] s = "mpec_licq" -> "mpec_licq.png"
      [] s = "mpec_mfcq" -> "mpec_mfcq.png"

\* print(f"Saved figure: {outname}") ; print(f"Saved diagram to {filename}")
confirmation(s) ==
    IF s = "mpec_intersection" THEN "Saved diagram to " \o outname(s)
    ELSE "Saved figure: " \o outname(s)

\* plt.subplots(figsize=(w, h)), in inches
figsize(s) ==
    CASE s \in {"gcq_illustration", "mpec_acq", "mpec_gcq"} -> << 14, 7 >>
      [] s = "mpec_licq" -> << 14, 10 >>
      [] s = "licq_violation" -> << 10, 11 >>
      [] s = "mfcq_illustration" -> << 10, 10 >>
      [] s = "mpec_feasible_region" -> << 12, 11 >>
      [] OTHER -> << 12, 10 >>

\* fig.savefig(..., dpi=300, ...)
dpi == 300

(***************************************************************************)
(* The body of each script as its maximal blocks of statements of one      *)
(* kind, in program order (a loop body is taken once, a call of draw_cone  *)
(* is expanded, a block ends where a function returns): "S" evaluates     *)
(* geometry (numpy calls, constraint           *)
(* functions, coordinate arithmetic), "F" configures the figure and axes,  *)
(* "R" calls drawing primitives (contourf, contour, plot, add_patch, text, *)
(* annotate, arrow, legend, axis labels), "E" is fig.savefig, "P" is       *)
(* print.  at is the line of the first statement of the block; op names    *)
(* the effect of the block on the local variables.                         *)
(***************************************************************************)
Blk(k, op, at) == [k |-> k, op |-> op, at |-> at]

Prog_acq_failure ==
    << Blk("S", "-", 14), Blk("F", "-", 17), Blk("S", "-", 36),
       Blk("R", "-", 54), Blk("S", "-", 119), Blk("R", "-", 126),
       Blk("S", "-", 131), Blk("R", "-", 132), Blk("S", "-", 138),
       Blk("R", "-", 143), Blk("F", "-", 193), Blk("E", "-", 203),
       Blk("P", "-", 204) >>

Prog_gcq_illustration ==
    << Blk("F", "-", 62), Blk("S", "cone_T", 19), Blk("R", "-", 28),
       Blk("S", "-", 31), Blk("R", "-", 36), Blk("S", "-", 44),
       Blk("R", "-", 48), Blk("S", "cone_L", 19), Blk("R", "-", 28),
       Blk("S", "-", 31), Blk("R", "-", 36), Blk("S", "-", 44),
       Blk("R", "-", 48), Blk("R", "-", 92), Blk("F", "-", 107),
       Blk("S", "cone_T_polar", 19), Blk("R", "-", 28), Blk("S", "-", 31),
       Blk("R", "-", 36), Blk("S", "-", 44), Blk("R", "-", 48),
       Blk("S", "cone_L_polar", 19), Blk("R", "-", 28), Blk("S", "-", 31),
       Blk("R", "-", 36), Blk("S", "-", 44), Blk("R", "-", 48),
       Blk("R", "-", 153), Blk("F", "-", 176), Blk("E", "-", 178),
       Blk("P", "-", 179) >>

\* slip: the confirmation is printed before the figure is saved
Prog_licq_violation_early ==
    << Blk("S", "licq_point", 38), Blk("F", "-", 55), Blk("R", "-", 67),
       Blk("S", "arrow1", 88), Blk("R", "-", 95), Blk("S", "arrow2", 98),
       Blk("R", "licq_labels", 105), Blk("F", "-", 148), Blk("P", "-", 159),
       Blk("E", "-", 158) >>

Prog_licq_violation ==
    << Blk("S", "licq_point", 38), Blk("F", "-", 55), Blk("R", "-", 67),
       Blk("S", "arrow1", 88), Blk("R", "-", 95), Blk("S", "arrow2", 98),
       Blk("R", "licq_labels", 105), Blk("F", "-", 148), Blk("E", "-", 158),
       Blk("P", "-", 159) >>

Prog_mfcq_illustration ==
    << Blk("S", "mfcq_point", 41), Blk("F", "-", 77), Blk("R", "-", 89),
       Blk("S", "-", 100), Blk("R", "-", 104), Blk("S", "-", 117),
       Blk("R", "-", 124), Blk("S", "-", 129), Blk("R", "-", 136),
       Blk("S", "-", 141), Blk("R", "-", 148), Blk("S", "-", 178),
       Blk("R", "-", 181), Blk("F", "-", 188), Blk("E", "-", 198),
       Blk("P", "-", 199) >>

Prog_mpec_acq ==
    << Blk("F", "-", 13), Blk("S", "-", 33), Blk("R", "-", 39),
       Blk("S", "-", 42), Blk("R", "-", 44), Blk("S", "-", 56),
       Blk("R", "-", 88), Blk("S", "-", 91), Blk("R", "-", 97),
       Blk("S", "-", 104), Blk("R", "-", 108), Blk("S", "-", 111),
       Blk("R", "-", 115), Blk("S", "-", 118), Blk("R", "-", 124),
       Blk("F", "-", 151), Blk("S", "-", 157), Blk("R", "-", 160),
       Blk("S", "-", 183), Blk("R", "-", 187), Blk("S", "-", 189),
       Blk("R", "-", 193), Blk("S", "-", 195), Blk("R", "-", 199),
       Blk("F", "-", 260), Blk("E", "-", 262), Blk("P", "-", 263) >>

Prog_mpec_cq_hierarchy ==
    << Blk("F", "-", 13), Blk("S", "node_boxes", 89), Blk("R", "-", 96),
       Blk("S", "arrows", 121), Blk("R", "-", 151), Blk("F", "-", 199),
       Blk("E", "-", 201), Blk("P", "-", 202) >>

Prog_mpec_feasible_region ==
    << Blk("S", "grid", 75), Blk("F", "-", 83), Blk("R", "shade", 96),
       Blk("S", "mask_lt0", 105), Blk("R", "overlay", 106),
       Blk("S", "-", 120), Blk("R", "-", 125), Blk("S", "intersection", 141),
       Blk("R", "-", 146), Blk("F", "-", 221), Blk("E", "-", 225),
       Blk("P", "-", 226) >>

Prog_mpec_gcq ==
    << Blk("F", "-", 13), Blk("S", "wedge1", 33), Blk("R", "-", 55),
       Blk("S", "wedge2", 58), Blk("R", "-", 64), Blk("S", "-", 79),
       Blk("R", "-", 85), Blk("S", "-", 88), Blk("R", "-", 94),
       Blk("F", "-", 120), Blk("S", "polar", 126), Blk("R", "-", 150),
       Blk("S", "-", 158), Blk("R", "-", 164), Blk("F", "-", 230),
       Blk("E", "-", 232), Blk("P", "-", 233) >>

\* slip: the axis limits are set and a caption is drawn after the save
Prog_mpec_intersection_late ==
    << Blk("F", "-", 12), Blk("R", "-", 23), Blk("E", "-", 49),
       Blk("F", "-", 45), Blk("R", "-", 38), Blk("P", "-", 50) >>

Prog_mpec_intersection ==
    << Blk("F", "-", 12), Blk("R", "-", 23), Blk("F", "-", 45),
       Blk("E", "-", 49), Blk("P", "-", 50) >>

Prog_mpec_licq ==
    << Blk("F", "-", 14), Blk("R", "-", 30), Blk("S", "-", 64),
       Blk("R", "-", 67), Blk("S", "-", 108), Blk("R", "-", 111),
       Blk("S", "-", 155), Blk("R", "-", 158), Blk("F", "-", 212),
       Blk("E", "-", 214), Blk("P", "-", 215) >>

Prog_mpec_mfcq ==
    << Blk("F", "-", 13), Blk("S", "-", 30), Blk("R", "-", 53),
       Blk("S", "-", 56), Blk("R", "-", 58), Blk("S", "-", 62),
       Blk("R", "-", 64), Blk("S", "-", 78), Blk("R", "-", 86),
       Blk("S", "-", 91), Blk("R", "-", 99), Blk("S", "-", 116),
       Blk("R", "-", 130), Blk("S", "-", 138), Blk("R", "-", 139),
       Blk("F", "-", 220), Blk("E", "-", 222), Blk("P", "-", 223) >>

Prog(s) ==
    CASE s = "acq_failure" -> Prog_acq_failure
      [] s = "gcq_illustration" -> Prog_gcq_illustration
      [] s = "licq_violation" -> Prog_licq_violation
      [] s = "mfcq_illustration" -> Prog_mfcq_illustration
      [] s = "mpec_acq" -> Prog_mpec_acq
      [] s = "mpec_cq_hierarchy" -> Prog_mpec_cq_hierarchy
      [] s = "mpec_feasible_region" -> Prog_mpec_feasible_region
      [] s = "mpec_gcq" -> Prog_mpec_gcq
      [] s = "mpec_intersection" -> Prog_mpec_intersection
      [] s = "mpec_licq" -> Prog_mpec_licq
      [] s = "mpec_mfcq" -> Prog_mpec_mfcq

\* number of blocks of kind k in a program
RECURSIVE Count(_, _)
Count(prog, k) ==
    IF prog = << >> THEN 0
    ELSE (IF Head(prog).k = k THEN 1 ELSE 0) + Count(Tail(prog), k)

(***************************************************************************)
(* The file system and the image written by fig.savefig.                   *)
(***************************************************************************)
FileNames == { outname(s) : s \in Scripts } \cup { s \o ".png" : s \in Scripts }

NoFile == [kind |-> "absent"]

\* a file that a failed save left behind
Partial == [kind |-> "partial"]

\* the figure of script s holding the given number of drawn blocks,
\* rendered at figsize * dpi
Image(s, artists) ==
    [kind |-> "png", fig |-> s, w |-> figsize(s)[1] * dpi,
     h |-> figsize(s)[2] * dpi, artists |-> artists]

\* slip: a second copy is saved under a generic name
savefig_copy(fsys, name, img) ==
    [f \in DOMAIN fsys \cup {name, "figure.png"} |->
       IF f \in {name, "figure.png"} THEN img ELSE fsys[f]]

\* fig.savefig(name, ...): creates or overwrites the file
savefig(fsys, name, img) == [f \in DOMAIN fsys \cup {name} |->
                               IF f = name THEN img ELSE fsys[f]]

(***************************************************************************)
(* State.                                                                  *)
(***************************************************************************)
VARIABLES
    script,    \* the script of the session, "none" before the first launch
    pc,        \* index in Prog(script) of the next block
    status,    \* "idle", "running", "done", "failed"
    env,       \* local variables of main() bound so far
    trace,     \* env after each executed "S" block of the run
    drawn,     \* "R" blocks executed in the run
    sampled,   \* "S" blocks executed in the run
    writes,    \* names of the files written by the run, in order
    stdout,    \* lines printed by the run
    fs,        \* the working directory: file name -> content
    fs0,       \* the working directory when the run was launched
    runs,      \* outcomes of the finished runs of the session
    procs,     \* concurrent scripts: script -> "idle", "rendered", "done"
    call       \* a call of a geometry function: name, arguments, result

vars ==
    << script, pc, status, env, trace, drawn, sampled, writes, stdout, fs,
       fs0, runs, procs, call >>

NoEnv == [v \in {} |-> 0]

NoCall == [f |-> "none"]

EmptyDir == [f \in FileNames |-> NoFile]

(***************************************************************************)
(* Effect of a block on the local variables.                               *)
(***************************************************************************)
Exec(op, e) ==
    CASE op = "grid" ->
           \* X, Y, Gvals, Hvals = compute_grid() and the three masks
           LET gr == compute_grid(GridN)
               mG == mask_ge0(gr.Gvals)
               mH == mask_ge0(gr.Hvals)
           IN  [Gvals |-> gr.Gvals, Hvals |-> gr.Hvals, mask_G_ge0 |-> mG,
                mask_H_ge0 |-> mH, mask_both |-> mask_product(mG, mH),
                layers |-> << >>] @@ e
      [] op = "shade" ->
           \* layers 2, 3, 4: H >= 0, G >= 0, both
           [layers |-> << contourf(e.mask_H_ge0, "#fff3e0"),
                          contourf(e.mask_G_ge0, "#e3f2fd"),
                          contourf(e.mask_both, "#c8e6c9") >>] @@ e
      [] op = "mask_lt0" ->
           [mask_H_lt0 |-> mask_lt0(e.Hvals)] @@ e
      [] op = "overlay" ->
           \* layer 5: white over H < 0
           [layers |-> Append(e.layers, contourf(e.mask_H_lt0, "white"))] @@ e
      [] op = "intersection" ->
           intersection @@ e
      [] op = "mfcq_point" ->
           LET xs == x_star_mfcq
               gh == gradient_h(xs[1], xs[2])
               gg == gradient_g(xs[1], xs[2])
           IN  [x_star |-> xs, grad_h |-> gh, grad_g |-> gg,
                d |-> choose_d(gh, gg)] @@ e
      [] op = "licq_point" ->
           LET xs == x_star_licq
               gr1 == gradient_g1(xs[1], xs[2])
               gr2 == gradient_g2(xs[1], xs[2])
           IN  [x_star |-> xs, grad_g1 |-> gr1, grad_g2 |-> gr2,
                grad_g1_norm |-> normalized(gr1, R(6, 10)),
                grad_g2_norm |-> normalized(gr2, R(5, 10))] @@ e
      [] op = "node_boxes" ->
           \* for key, (x, y) in nodes.items(): the lower left corner of
           \* the box of each node
           [nodes |-> nodes,
            boxes |-> [k \in DOMAIN nodes |->
                          << RSub(nodes[k][1], RDiv(node_width, RInt(2))),
                             RSub(nodes[k][2], RDiv(node_height, RInt(2))) >>]]
               @@ e
      [] op = "arrows" ->
           [arrows |-> implication_arrows(e.nodes, implications)] @@ e
      [] op = "cone_T" ->
           \* t_angle1, t_angle2 = 25, 75
           [T |-> draw_cone(25, 75, R(16, 10))] @@ e
      [] op = "cone_L" ->
           \* l_angle1, l_angle2 = 10, 90
           [L |-> draw_cone(10, 90, R(18, 10))] @@ e
      [] op = "cone_T_polar" ->
           \* t_polar_angle1, t_polar_angle2 = 165, 245
           [t_polar_angle1 |-> 165, t_polar_angle2 |-> 245,
            T_polar |-> draw_cone(165, 245, R(15, 10))] @@ e
      [] op = "cone_L_polar" ->
           \* l_polar_angle1, l_polar_angle2 = 180, 260 are assigned; the
           \* call passes t_polar_angle1, t_polar_angle2
           [l_polar_angle1 |-> 180, l_polar_angle2 |-> 260,
            L_polar |-> draw_cone(e.t_polar_angle1, e.t_polar_angle2,
                                  R(15, 10))] @@ e
      [] op = "wedge1" ->
           \* theta1_start, theta1_end = -30, 15 ; theta2_start,
           \* theta2_end = 50, 95 ; the first wedge
           [theta1_start |-> -30, theta1_end |-> 15, theta2_start |-> 50,
            theta2_end |-> 95, wedge1 |-> wedge(-30, 15)] @@ e
      [] op = "wedge2" ->
           [wedge2 |-> wedge(e.theta2_start, e.theta2_end)] @@ e
      [] op = "polar" ->
           \* polar_start = theta1_end + 90 ; polar_end = theta2_start + 90
           LET polar_start == e.theta1_end + 90
               polar_end == e.theta2_start + 90
           IN  [polar_start |-> polar_start, polar_end |-> polar_end,
                polar |-> wedge(polar_start, polar_end)] @@ e
      [] op = "arrow1" ->
           [arrow1 |-> FancyArrowPatch(e.x_star, e.grad_g1_norm)] @@ e
      [] op = "arrow2" ->
           [arrow2 |-> FancyArrowPatch(e.x_star, e.grad_g2_norm)] @@ e
      [] op = "licq_labels" ->
           \* the two gradient labels and the dashed line of collinearity
           LET line_extent == R(85, 100)
           IN  [label_g1 |-> << RAdd(e.x_star[1], R(12, 100)),
                               RSub(e.x_star[2], R(72, 100)) >>,
                label_g2 |-> << RAdd(e.x_star[1], R(12, 100)),
                               RAdd(e.x_star[2], R(72, 100)) >>,
                dashed |-> [from |-> << e.x_star[1],
                                       RSub(e.x_star[2], line_extent) >>,
                            to |-> << e.x_star[1],
                                     RAdd(e.x_star[2], line_extent) >>]] @@ e
      [] OTHER -> e

(***************************************************************************)
(* A session: one script is launched, runs block by block, and may be      *)
(* launched again.  Any block may raise; nothing catches the exception.    *)
(***************************************************************************)
Running == status = "running" /\ pc <= Len(Prog(script))

Cur == Prog(script)[pc]

\* slip: the local variables of the previous run survive the launch
Launch_keep(s) ==
    /\ status # "running"
    /\ script \in {"none", s}
    /\ Len(runs) < MaxRuns
    /\ script' = s
    /\ pc' = 1
    /\ status' = "running"
    /\ trace' = << >>
    /\ drawn' = 0
    /\ sampled' = 0
    /\ writes' = << >>
    /\ stdout' = << >>
    /\ fs0' = fs
    /\ UNCHANGED << env, fs, runs, procs, call >>

Launch(s) ==
    /\ status # "running"
    /\ script \in {"none", s}
    /\ Len(runs) < MaxRuns
    /\ script' = s
    /\ pc' = 1
    /\ status' = "running"
    /\ env' = NoEnv
    /\ trace' = << >>
    /\ drawn' = 0
    /\ sampled' = 0
    /\ writes' = << >>
    /\ stdout' = << >>
    /\ fs0' = fs
    /\ UNCHANGED << fs, runs, procs, call >>

Sample ==
    /\ Running
    /\ Cur.k = "S"
    /\ env' = Exec(Cur.op, env)
    /\ trace' = Append(trace, env')
    /\ sampled' = sampled + 1
    /\ pc' = pc + 1
    /\ UNCHANGED << script, status, drawn, writes, stdout, fs, fs0, runs,
                    procs, call >>

Setup ==
    /\ Running
    /\ Cur.k = "F"
    /\ pc' = pc + 1
    /\ UNCHANGED << script, status, env, trace, drawn, sampled, writes,
                    stdout, fs, fs0, runs, procs, call >>

Draw ==
    /\ Running
    /\ Cur.k = "R"
    /\ env' = Exec(Cur.op, env)
    /\ drawn' = drawn + 1
    /\ pc' = pc + 1
    /\ UNCHANGED << script, status, trace, sampled, writes, stdout, fs, fs0,
                    runs, procs, call >>

Save ==
    /\ Running
    /\ Cur.k = "E"
    /\ fs' = savefig(fs, outname(script), Image(script, drawn))
    /\ writes' = Append(writes, outname(script))
    /\ pc' = pc + 1
    /\ UNCHANGED << script, status, env, trace, drawn, sampled, stdout, fs0,
                    runs, procs, call >>

PrintLine ==
    /\ Running
    /\ Cur.k = "P"
    /\ stdout' = Append(stdout, confirmation(script))
    /\ pc' = pc + 1
    /\ UNCHANGED << script, status, env, trace, drawn, sampled, writes, fs,
                    fs0, runs, procs, call >>

\* main() returns and the interpreter exits
Exit ==
    /\ status = "running"
    /\ pc > Len(Prog(script))
    /\ status' = "done"
    /\ runs' = Append(runs, [ok |-> TRUE, trace |-> trace,
                             file |-> fs[outname(script)],
                             stdout |-> stdout])
    /\ UNCHANGED << script, pc, env, trace, drawn, sampled, writes, stdout,
                    fs, fs0, procs, call >>

\* the current block raises: the traceback ends the run; a save that
\* raises may already have created the file
Fail ==
    /\ Running
    /\ status' = "failed"
    /\ runs' = Append(runs, [ok |-> FALSE, at |-> Cur.at])
    /\ \/ UNCHANGED fs
       \/ /\ Cur.k = "E"
          /\ fs' = savefig(fs, outname(script), Partial)
    /\ UNCHANGED << script, pc, env, trace, drawn, sampled, writes, stdout,
                    fs0, procs, call >>

Init ==
    /\ script = "none"
    /\ pc = 1
    /\ status = "idle"
    /\ env = NoEnv
    /\ trace = << >>
    /\ drawn = 0
    /\ sampled = 0
    /\ writes = << >>
    /\ stdout = << >>
    /\ fs = EmptyDir
    /\ fs0 = EmptyDir
    /\ runs = << >>
    /\ procs = [s \in Scripts |-> "idle"]
    /\ call = NoCall

Next ==
    \/ \E s \in Scripts : Launch(s)
    \/ Sample
    \/ Setup
    \/ Draw
    \/ Save
    \/ PrintLine
    \/ Exit
    \/ Fail

Spec == Init /\ [][Next]_vars

(***************************************************************************)
(* The eleven scripts started side by side in one working directory.  A    *)
(* script touches the directory only in fig.savefig, so its run is split   *)
(* there: Render(s) is main() up to the save, Export(s) is the save and    *)
(* the print.                                                              *)
(***************************************************************************)
\* the figure of s when every drawing block of main() has run
FinalImage(s) == Image(s, Count(Prog(s), "R"))

Render(s) ==
    /\ procs[s] = "idle"
    /\ procs' = [procs EXCEPT ![s] = "rendered"]
    /\ UNCHANGED << script, pc, status, env, trace, drawn, sampled, writes,
                    stdout, fs, fs0, runs, call >>

Export(s) ==
    /\ procs[s] = "rendered"
    /\ fs' = savefig(fs, outname(s), FinalImage(s))
    /\ procs' = [procs EXCEPT ![s] = "done"]
    /\ UNCHANGED << script, pc, status, env, trace, drawn, sampled, writes,
                    stdout, fs0, runs, call >>

NextAll ==
    \/ \E s \in Scripts : Render(s)
    \/ \E s \in Scripts : Export(s)

SpecAll == Init /\ [][NextAll]_vars

(***************************************************************************)
(* Calls of the gradient functions on sample points (x, y).                *)
(***************************************************************************)
\* denominator of the sample coordinates
PtDen == 2

Pts == { R(k, PtDen) : k \in -PtMax .. PtMax }

\* steps of the central difference
FdSteps == { R(1, 2), R(1, 1000) }

InitGrad ==
    /\ script = "none"
    /\ pc = 1
    /\ status = "idle"
    /\ env = NoEnv
    /\ trace = << >>
    /\ drawn = 0
    /\ sampled = 0
    /\ writes = << >>
    /\ stdout = << >>
    /\ fs = EmptyDir
    /\ fs0 = EmptyDir
    /\ runs = << >>
    /\ procs = [s \in Scripts |-> "idle"]
    /\ call \in [f : {"none"}, x : Pts, y : Pts, e : FdSteps, ret : {<< >>}]

Returns(fn, val) ==
    /\ call.f = "none"
    /\ call' = [call EXCEPT !.f = fn, !.ret = val]
    /\ UNCHANGED << script, pc, status, env, trace, drawn, sampled, writes,
                    stdout, fs, fs0, runs, procs >>

Call_gradient_h == Returns("gradient_h", gradient_h(call.x, call.y))

Call_gradient_g == Returns("gradient_g", gradient_g(call.x, call.y))

Call_gradient_g1 == Returns("gradient_g1", gradient_g1(call.x, call.y))

Call_gradient_g2 == Returns("gradient_g2", gradient_g2(call.x, call.y))

\* g1(X, Y), g2(X, Y) at one point, as compute_grid evaluates them
Call_g1_g2 == Returns("g1_g2", << g1(call.x, call.y), g2(call.x, call.y) >>)

NextGrad ==
    \/ Call_gradient_h
    \/ Call_gradient_g
    \/ Call_gradient_g1
    \/ Call_gradient_g2
    \/ Call_g1_g2

SpecGrad == InitGrad /\ [][NextGrad]_vars

(***************************************************************************)
(* Calls of the direction selection of mfcq_illustration on pairs of       *)
(* gradients (grad_h, grad_g).                                             *)
(***************************************************************************)
Vecs == { << a, b >> : a \in Pts, b \in Pts }

InitDir ==
    /\ script = "none"
    /\ pc = 1
    /\ status = "idle"
    /\ env = NoEnv
    /\ trace = << >>
    /\ drawn = 0
    /\ sampled = 0
    /\ writes = << >>
    /\ stdout = << >>
    /\ fs = EmptyDir
    /\ fs0 = EmptyDir
    /\ runs = << >>
    /\ procs = [s \in Scripts |-> "idle"]
    /\ call \in [f : {"none"}, grad_h : Vecs, grad_g : Vecs, ret : {<< >>}]

\* slip: the first perpendicular is taken without the test
Call_choose_d_first ==
    Returns("choose_d", << RNeg(call.grad_h[2]), call.grad_h[1] >>)

Call_choose_d == Returns("choose_d", choose_d(call.grad_h, call.grad_g))

NextDir == Call_choose_d

SpecDir == InitDir /\ [][NextDir]_vars

(***************************************************************************)
(* get_feasible_contour_segments(contour_set, condition_func), statement   *)
(* by statement.  call holds the frame of the function: the paths the      *)
(* iterator of contour_set.get_paths() has yielded so far, the position    *)
(* `at`, and the locals.  seg_at and the field at of a segment record, for *)
(* each stored vertex, the path and the index it was read from; the code   *)
(* stores the coordinates only.                                            *)
(***************************************************************************)
\* vertices of the contour paths: (1, 0) and (0, 1) on G = 0, (0, 2) and
\* (0, 0) on H = 0, and the marked intersection point of the two curves
VertPts ==
    { << Scale, 0 >>, << 0, Scale >>, << 0, 2 * Scale >>, << 0, 0 >>,
      << intersection.x_int, intersection.y_int >> }

\* threshold = 0.01
threshold == Scale \div 100

\* condition_func(x, y): the script passes H and G
condition_func(fn, v) == IF fn = "G" THEN G(v[1], v[2]) ELSE H(v[1], v[2])

\* slip: the threshold of the docstring, 0
valid_mask_ge0(fn, verts) ==
    [k \in 1 .. Len(verts) |-> condition_func(fn, verts[k]) >= 0]

\* valid = cond_vals >= threshold
valid_mask(fn, verts) ==
    [k \in 1 .. Len(verts) |-> condition_func(fn, verts[k]) >= threshold]

\* slip: a run of one vertex is kept
Flush_single(c) ==
    IF c.in_segment /\ Len(c.seg_x) > 0
    THEN Append(c.segments, [x |-> c.seg_x, y |-> c.seg_y, at |-> c.seg_at])
    ELSE c.segments

\* if in_segment and len(seg_x) > 1: segments.append((seg_x, seg_y))
Flush(c) ==
    IF c.in_segment /\ Len(c.seg_x) > 1
    THEN Append(c.segments, [x |-> c.seg_x, y |-> c.seg_y, at |-> c.seg_at])
    ELSE c.segments

RECURSIVE TotalLen(_)
TotalLen(ps) == IF ps = << >> THEN 0 ELSE Len(Head(ps)) + TotalLen(Tail(ps))

\* the paths the iterator may yield next
PathsLeft(ps) ==
    UNION { [1 .. l -> VertPts] : l \in 0 .. (MaxVerts - TotalLen(ps)) }

InitSeg ==
    /\ script = "none"
    /\ pc = 1
    /\ status = "idle"
    /\ env = NoEnv
    /\ trace = << >>
    /\ drawn = 0
    /\ sampled = 0
    /\ writes = << >>
    /\ stdout = << >>
    /\ fs = EmptyDir
    /\ fs0 = EmptyDir
    /\ runs = << >>
    /\ procs = [s \in Scripts |-> "idle"]
    /\ call \in [f : {"get_feasible_contour_segments"},
                 condition_func : {"G", "H"}, paths : {<< >>},
                 at : {"for_path"}, verts : {<< >>}, valid : {<< >>},
                 i : {0}, in_segment : {FALSE}, seg_x : {<< >>},
                 seg_y : {<< >>}, seg_at : {<< >>}, segments : {<< >>},
                 ret : {<< >>}]

SegUnchanged ==
    UNCHANGED << script, pc, status, env, trace, drawn, sampled, writes,
                 stdout, fs, fs0, runs, procs >>

\* for path in contour_set.get_paths(): the next path; a path with fewer
\* than 2 vertices is skipped, otherwise the inner loop is set up
NextPath ==
    /\ call.at = "for_path"
    /\ Len(call.paths) < MaxPaths
    /\ \E verts \in PathsLeft(call.paths) :
           call' = IF Len(verts) < 2
                   THEN [call EXCEPT !.paths = Append(@, verts),
                                     !.verts = verts]
                   ELSE [call EXCEPT !.paths = Append(@, verts),
                                     !.verts = verts,
                                     !.valid = valid_mask(call.condition_func,
                                                          verts),
                                     !.in_segment = FALSE,
                                     !.seg_x = << >>,
                                     !.seg_y = << >>,
                                     !.seg_at = << >>,
                                     !.i = 0,
                                     !.at = "for_i"]
    /\ SegUnchanged

\* slip: an invalid vertex flushes the run but does not reset it
LoopBody_noreset ==
    /\ call.at = "for_i"
    /\ call.i < Len(call.verts)
    /\ call' = IF call.valid[call.i + 1]
               THEN [call EXCEPT
                        !.seg_x = Append(@, call.verts[call.i + 1][1]),
                        !.seg_y = Append(@, call.verts[call.i + 1][2]),
                        !.seg_at = Append(@, << Len(call.paths), call.i + 1 >>),
                        !.in_segment = TRUE,
                        !.i = @ + 1]
               ELSE [call EXCEPT
                        !.segments = Flush(call),
                        !.i = @ + 1]
    /\ SegUnchanged

\* one iteration of for i in range(len(x_pts))
LoopBody ==
    /\ call.at = "for_i"
    /\ call.i < Len(call.verts)
    /\ call' = IF call.valid[call.i + 1]
               THEN [call EXCEPT
                        !.seg_x = Append(@, call.verts[call.i + 1][1]),
                        !.seg_y = Append(@, call.verts[call.i + 1][2]),
                        !.seg_at = Append(@, << Len(call.paths), call.i + 1 >>),
                        !.in_segment = TRUE,
                        !.i = @ + 1]
               ELSE [call EXCEPT
                        !.segments = Flush(call),
                        !.seg_x = << >>,
                        !.seg_y = << >>,
                        !.seg_at = << >>,
                        !.in_segment = FALSE,
                        !.i = @ + 1]
    /\ SegUnchanged

\* the inner loop is exhausted: the last segment, then the next path
EndLoop ==
    /\ call.at = "for_i"
    /\ call.i = Len(call.verts)
    /\ call' = [call EXCEPT !.segments = Flush(call), !.at = "for_path"]
    /\ SegUnchanged

\* the iterator is exhausted: return segments
Return ==
    /\ call.at = "for_path"
    /\ call' = [call EXCEPT !.ret = call.segments, !.at = "returned"]
    /\ SegUnchanged

NextSeg ==
    \/ NextPath
    \/ LoopBody
    \/ EndLoop
    \/ Return

SpecSeg == InitSeg /\ [][NextSeg]_vars

(***************************************************************************)
(* The feasible mask of licq_violation, point by point and column by       *)
(* column: at the nodes (xs[i], ys[j]) of the sampling grid and at the     *)
(* sample points.                                                          *)
(***************************************************************************)
GridXs == { xs_licq(i) : i \in 0 .. n_licq - 1 }

GridYs == { ys_licq(j) : j \in 0 .. n_licq - 1 }

InitMask ==
    /\ script = "none"
    /\ pc = 1
    /\ status = "idle"
    /\ env = NoEnv
    /\ trace = << >>
    /\ drawn = 0
    /\ sampled = 0
    /\ writes = << >>
    /\ stdout = << >>
    /\ fs = EmptyDir
    /\ fs0 = EmptyDir
    /\ runs = << >>
    /\ procs = [s \in Scripts |-> "idle"]
    /\ call \in [f : {"none"}, x : GridXs \cup Pts]

\* G1, G2 = g1(X, Y), g2(X, Y) and the mask, at one point (x, y)
feasible_at(x, y) ==
    LET G1 == g1(x, y)
        G2 == g2(x, y)
    IN  [f |-> "feasible", x |-> x, y |-> y,
         ret |-> << G1, G2, feasible(G1, G2) >>]

\* the mask at the points of the column call.x
Call_feasible ==
    /\ call.f = "none"
    /\ \E y \in GridYs \cup Pts : call' = feasible_at(call.x, y)
    /\ UNCHANGED << script, pc, status, env, trace, drawn, sampled, writes,
                    stdout, fs, fs0, runs, procs >>

NextMask == Call_feasible

SpecMask == InitMask /\ [][NextMask]_vars

\* central finite difference of f at (x, y) with step e: the two partial
\* difference quotients (f(x+e,y) - f(x-e,y)) / 2e, (f(x,y+e) - f(x,y-e)) / 2e
CentralDiff(f(_, _), x, y, e) ==
    << RDiv(RSub(f(RAdd(x, e), y), f(RSub(x, e), y)), RMul(RInt(2), e)),
       RDiv(RSub(f(x, RAdd(y, e)), f(x, RSub(y, e))), RMul(RInt(2), e)) >>

(***************************************************************************)
(* Claims.                                                                 *)
(***************************************************************************)
InFeasibleRegion == script = "mpec_feasible_region"

\* C1: in mpec_feasible_region every sampled grid point with G >= 0 and
\* H >= 0 has mask_both = 1, has mask_H_lt0 = 0, and once the intersection
\* layer is drawn shows the colour of the intersection layer, also after
\* the white H < 0 overlay has been drawn on top.
C1_FeasibleShaded ==
    (InFeasibleRegion /\ "mask_both" \in DOMAIN env) =>
        \A p \in DOMAIN env.Gvals :
            (env.Gvals[p] >= 0 /\ env.Hvals[p] >= 0) =>
                /\ env.mask_both[p] = Scale
                /\ "mask_H_lt0" \in DOMAIN env => env.mask_H_lt0[p] = 0
                /\ Len(env.layers) >= 3 =>
                       /\ Covers(env.layers[3], p)
                       /\ TopColor(env.layers, p) = "#c8e6c9"

\* all five layers are drawn; some sample is feasible for both, some lies
\* inside the circle with G >= 0, and some lies on neither side
C1_Witness ==
    /\ InFeasibleRegion
    /\ "layers" \in DOMAIN env
    /\ Len(env.layers) = 4
    /\ \E p \in DOMAIN env.Gvals : env.Gvals[p] >= 0 /\ env.Hvals[p] >= 0
    /\ \E p \in DOMAIN env.Gvals :
           env.Gvals[p] >= 0 /\ env.Hvals[p] < 0
           /\ TopColor(env.layers, p) = "white"
    /\ \E p \in DOMAIN env.Gvals : env.Gvals[p] < 0 /\ env.Hvals[p] >= 0

\* 1e-6 in fixed point
Tol6 == Scale \div 1000000

\* C2: in mpec_feasible_region both marked points (+x_int, y_int) and
\* (-x_int, y_int) satisfy |G| <= 1e-6 and |H| <= 1e-6, and t satisfies
\* t^2 + t = 1 within 1e-6.
C2_IntersectionOnCurves ==
    (InFeasibleRegion /\ "x_int" \in DOMAIN env) =>
        /\ Abs(FMul(env.t, env.t) + env.t - Scale) <= Tol6
        /\ \A sx \in {env.x_int, -env.x_int} :
               /\ Abs(G(sx, env.y_int)) <= Tol6
               /\ Abs(H(sx, env.y_int)) <= Tol6

\* the intersection points have been computed and are two distinct points
\* strictly inside the sampled window
C2_Witness ==
    /\ InFeasibleRegion
    /\ "x_int" \in DOMAIN env
    /\ env.x_int > 0
    /\ env.x_int < 2 * Scale
    /\ env.y_int > 0
    /\ env.y_int < Scale

InMfcq == script = "mfcq_illustration" /\ "x_star" \in DOMAIN env

\* C3 as stated: in mfcq_illustration x* satisfies |h(x*)| <= 1e-6 and
\* |g(x*)| <= 1e-6.
C3_Original ==
    InMfcq =>
        /\ RLe(RAbs(h(env.x_star[1], env.x_star[2])), R(1, 1000000))
        /\ RLe(RAbs(g(env.x_star[1], env.x_star[2])), R(1, 1000000))

\* C3: in mfcq_illustration x* = (0.907, 0.3*0.907^2 + 0.5) lies on h = 0
\* within 1e-6 and on g = 0 within 1e-3 only (0.907 is the root rounded to
\* three decimals).
C3_WithinRounding ==
    InMfcq =>
        /\ RLe(RAbs(h(env.x_star[1], env.x_star[2])), R(1, 1000000))
        /\ RLe(RAbs(g(env.x_star[1], env.x_star[2])), R(1, 1000))

\* x* has been computed and g(x*) is not zero
C3_Witness ==
    /\ InMfcq
    /\ env.x_star[1] = R(907, 1000)
    /\ g(env.x_star[1], env.x_star[2]) = R(2947, 10000000)
    /\ h(env.x_star[1], env.x_star[2]) = RInt(0)

\* C4 as stated: for every point (x, y), gradient_h(x, y) and
\* gradient_g(x, y) equal the central finite differences of h and of g at
\* (x, y).
C4_GradientsMatch ==
    /\ call.f = "gradient_h" => call.ret = CentralDiff(h, call.x, call.y, call.e)
    /\ call.f = "gradient_g" => call.ret = CentralDiff(g, call.x, call.y, call.e)

\* C5: for every point (x, y), gradient_g1(x, y) and gradient_g2(x, y) equal
\* the central finite differences of g1 and of g2 at (x, y).
C5_GradientsMatch ==
    /\ call.f = "gradient_g1" =>
           call.ret = CentralDiff(g1, call.x, call.y, call.e)
    /\ call.f = "gradient_g2" =>
           call.ret = CentralDiff(g2, call.x, call.y, call.e)

\* gradient_g1 has returned a vector with two nonzero components
C5_Witness ==
    /\ call.f = "gradient_g1"
    /\ call.ret = CentralDiff(g1, call.x, call.y, call.e)
    /\ call.ret[1].n # 0
    /\ call.ret[2].n # 0

\* the file name a script is expected to write: its base name and ".png"
Expected(s) == s \o ".png"

\* C6: a run writes at most one file; the write is the save of the figure
\* to "<script>.png", issued when every drawing block of the script has
\* run; no other file of the directory is created or changed; a run that
\* completes has made exactly that one write and the file is a whole image.
C6_SingleWrite ==
    script \in Scripts =>
        /\ Len(writes) <= 1
        /\ writes # << >> =>
               /\ writes[1] = Expected(script)
               /\ drawn = Count(Prog(script), "R")
        /\ \A f \in (DOMAIN fs \cup DOMAIN fs0) \ {Expected(script)} :
               f \in DOMAIN fs /\ f \in DOMAIN fs0 /\ fs[f] = fs0[f]
        /\ status = "done" =>
               /\ writes = << Expected(script) >>
               /\ fs[Expected(script)] = Image(script, drawn)

\* a run has completed after drawing and saving
C6_Witness ==
    /\ status = "done"
    /\ drawn > 0
    /\ writes = << Expected(script) >>
    /\ fs[Expected(script)].kind = "png"

\* C7 as stated: within a run nothing is sampled once a drawing block has
\* run, and nothing is drawn once the figure is saved.
C7_Original ==
    [][(status = "running" /\ status' = "running") =>
           /\ drawn > 0 => sampled' = sampled
           /\ writes # << >> => drawn' = drawn]_vars

\* C7: within a run, once the figure is saved nothing more is sampled and
\* nothing more is drawn: the exporter comes last.  (Sampling and drawing
\* blocks alternate before the save.)
C7_ExportLast ==
    [][(status = "running" /\ status' = "running" /\ writes # << >>) =>
           (drawn' = drawn /\ sampled' = sampled)]_vars

\* the figure is saved after sampling and drawing, the print is still due
C7_Witness ==
    /\ Running
    /\ Cur.k = "P"
    /\ writes # << >>
    /\ sampled > 1
    /\ drawn > 1

\* C8: a run prints at most one line; a printed line is the confirmation
\* naming the file the run has written, and that file is then a whole
\* image; a run that failed printed nothing; a run that completed printed
\* the line.
C8_ConfirmationAfterSave ==
    /\ Len(stdout) <= 1
    /\ stdout # << >> =>
           /\ writes # << >>
           /\ stdout[1] \in { "Saved figure: " \o writes[1],
                              "Saved diagram to " \o writes[1] }
           /\ fs[writes[1]].kind = "png"
    /\ status = "failed" => stdout = << >>
    /\ status = "done" => Len(stdout) = 1

\* a run completed and printed its line after an earlier run of the same
\* script failed in the save and left a partial file
C8_Witness ==
    /\ status = "done"
    /\ Len(stdout) = 1
    /\ Len(runs) = 2
    /\ ~runs[1].ok
    /\ fs0[Expected(script)] = Partial

Alone(s) == savefig(EmptyDir, outname(s), FinalImage(s))

\* C10: the output names of the scripts are pairwise distinct; in every
\* interleaving the file of a script that has exported is the file the
\* script writes when run alone, and every file present was written by the
\* script that owns its name: no script overwrites another's output.
C10_Independent ==
    /\ \A s, t \in Scripts : s # t => outname(s) # outname(t)
    /\ \A s \in Scripts :
           procs[s] = "done" => fs[outname(s)] = Alone(s)[outname(s)]
    /\ \A f \in DOMAIN fs :
           fs[f] # NoFile =>
               \E s \in Scripts :
                   procs[s] = "done" /\ f = outname(s) /\ fs[f].fig = s

\* all eleven scripts have exported
C10_Witness ==
    /\ \A s \in Scripts : procs[s] = "done"
    /\ \A s \in Scripts : fs[outname(s)] = FinalImage(s)

\* C11: in mfcq_illustration the direction d selected at x* is one of the
\* two perpendiculars of the grad_h the script computed at x*, and for the
\* gradients the script computed it satisfies grad_h . d = 0 and
\* grad_g . d < 0.
C11_DirectionAtXStar ==
    InMfcq =>
        /\ env.grad_h = gradient_h(env.x_star[1], env.x_star[2])
        /\ env.grad_g = gradient_g(env.x_star[1], env.x_star[2])
        /\ env.d \in { << RNeg(env.grad_h[2]), env.grad_h[1] >>,
                       << env.grad_h[2], RNeg(env.grad_h[1]) >> }
        /\ RDot(env.grad_h, env.d) = RInt(0)
        /\ RLt(RDot(env.grad_g, env.d), RInt(0))

\* the else branch was taken at x*: d = d_candidate2 = (1, -0.5442)
C11_Witness ==
    /\ InMfcq
    /\ env.grad_h = << R(5442, 10000), RInt(1) >>
    /\ env.grad_g = << R(-1, 2), RInt(1) >>
    /\ env.d = << RInt(1), R(-5442, 10000) >>
    /\ RDot(env.grad_g, env.d) = R(-10442, 10000)

InLicq == script = "licq_violation" /\ "x_star" \in DOMAIN env

\* the point p lies on the straight segment s (vertical or horizontal)
OnSegment(p, s) ==
    /\ RLe(s.from[1], p[1]) /\ RLe(p[1], s.to[1])
    /\ RLe(s.from[2], p[2]) /\ RLe(p[2], s.to[2])

\* 2x2 determinant of the pairs u, v
Det(u, v) == RSub(RMul(u[1], v[2]), RMul(u[2], v[1]))

\* C12: in licq_violation x* = (0.5, 0.5), gradient_g1(x*) = (0, -2) and
\* gradient_g2(x*) = (0, 2), their determinant is zero, and both ends of
\* both drawn arrows lie on the dashed vertical segment through x*.
C12_Collinear ==
    InLicq =>
        /\ env.x_star = << R(1, 2), R(1, 2) >>
        /\ env.grad_g1 = << RInt(0), RInt(-2) >>
        /\ env.grad_g2 = << RInt(0), RInt(2) >>
        /\ Det(env.grad_g1, env.grad_g2) = RInt(0)
        /\ \A a \in {"arrow1", "arrow2"} :
               a \in DOMAIN env =>
                   /\ env[a].from[1] = env.x_star[1]
                   /\ env[a].to[1] = env.x_star[1]
                   /\ "dashed" \in DOMAIN env =>
                          /\ env.dashed.from[1] = env.x_star[1]
                          /\ env.dashed.to[1] = env.x_star[1]
                          /\ OnSegment(env[a].from, env.dashed)
                          /\ OnSegment(env[a].to, env.dashed)

\* both arrows and the dashed line are drawn, the arrows have lengths 0.6
\* and 0.5
C12_Witness ==
    /\ InLicq
    /\ "dashed" \in DOMAIN env
    /\ env.arrow1.to # env.arrow1.from
    /\ env.arrow2.to # env.arrow2.from
    /\ RAbs(RSub(env.arrow1.to[2], env.arrow1.from[2])) = R(6, 10)
    /\ RAbs(RSub(env.arrow2.to[2], env.arrow2.from[2])) = R(5, 10)

InHierarchy == script = "mpec_cq_hierarchy" /\ "arrows" \in DOMAIN env

\* the arrows of the diagram as pairs (from_node, to_node)
Arrows == { << env.arrows[i].from_node, env.arrows[i].to_node >> :
              i \in DOMAIN env.arrows }

\* the arrows announced in the header of the file:
\* LICQ -> MFCQ -> ACQ -> GCQ, LICQ -> CRCQ -> CPLD
HeaderArrows ==
    { << "LICQ", "MFCQ" >>, << "MFCQ", "ACQ" >>, << "ACQ", "GCQ" >>,
      << "LICQ", "CRCQ" >>, << "CRCQ", "CPLD" >> }

RECURSIVE ReachFrom(_, _)
ReachFrom(S, seen) ==
    LET succ == { a[2] : a \in { b \in Arrows : b[1] \in S } }
    IN  IF succ \subseteq seen THEN seen
        ELSE ReachFrom(succ \ seen, seen \cup succ)

Reach(n) == ReachFrom({n}, {})

\* C14: in the graph of the drawn arrows every other node is reachable
\* from LICQ, GCQ is reachable from every other node, no arrow enters LICQ,
\* no arrow leaves GCQ, every arrow goes from a node with larger y to a
\* node with smaller y and is itself drawn downwards, and no node reaches
\* itself.
C14_StrongestWeakest ==
    InHierarchy =>
        /\ \A n \in DOMAIN env.nodes \ {"LICQ"} : n \in Reach("LICQ")
        /\ \A n \in DOMAIN env.nodes \ {"GCQ"} : "GCQ" \in Reach(n)
        /\ \A a \in Arrows : a[2] # "LICQ" /\ a[1] # "GCQ"
        /\ \A i \in DOMAIN env.arrows :
               /\ RLt(env.nodes[env.arrows[i].to_node][2],
                      env.nodes[env.arrows[i].from_node][2])
               /\ RLt(env.arrows[i].to[2], env.arrows[i].from[2])
        /\ \A n \in DOMAIN env.nodes : n \notin Reach(n)

\* the six nodes are placed on four rows and the arrows are computed; GCQ
\* is reached from LICQ along both branches
C14_Witness ==
    /\ InHierarchy
    /\ DOMAIN env.nodes = {"LICQ", "MFCQ", "CRCQ", "ACQ", "CPLD", "GCQ"}
    /\ Cardinality({ env.nodes[n][2] : n \in DOMAIN env.nodes }) = 4
    /\ "GCQ" \in Reach("ACQ")
    /\ "GCQ" \in Reach("CPLD")
    /\ Reach("LICQ") = DOMAIN env.nodes \ {"LICQ"}

Zero2 == << RInt(0), RInt(0) >>

\* C15 as stated: for every nonzero grad_h and every grad_g the chosen d is
\* perpendicular to grad_h and satisfies grad_g . d < 0.
C15_Original ==
    (call.f = "choose_d" /\ call.grad_h # Zero2) =>
        /\ RDot(call.grad_h, call.ret) = RInt(0)
        /\ RLt(RDot(call.grad_g, call.ret), RInt(0))

\* C15: for every nonzero grad_h and every grad_g the chosen d is one of the
\* two perpendiculars of grad_h, is nonzero and perpendicular to grad_h, and
\* satisfies grad_g . d <= 0; grad_g . d < 0 holds exactly when grad_g is
\* not collinear with grad_h (when it is, in particular when grad_g = 0, the
\* else branch returns d_candidate2 with grad_g . d = 0).
C15_PerpendicularNonIncreasing ==
    (call.f = "choose_d" /\ call.grad_h # Zero2) =>
        /\ call.ret \in { << RNeg(call.grad_h[2]), call.grad_h[1] >>,
                          << call.grad_h[2], RNeg(call.grad_h[1]) >> }
        /\ call.ret # Zero2
        /\ RDot(call.grad_h, call.ret) = RInt(0)
        /\ RLe(RDot(call.grad_g, call.ret), RInt(0))
        /\ RLt(RDot(call.grad_g, call.ret), RInt(0))
               <=> Det(call.grad_h, call.grad_g) # RInt(0)
        /\ Det(call.grad_h, call.grad_g) = RInt(0) =>
               call.ret = << call.grad_h[2], RNeg(call.grad_h[1]) >>

\* the selection has returned for a nonzero grad_g collinear with a
\* nonzero grad_h: d = d_candidate2 and grad_g . d = 0
C15_Witness ==
    /\ call.f = "choose_d"
    /\ call.grad_h # Zero2
    /\ call.grad_g # Zero2
    /\ Det(call.grad_h, call.grad_g) = RInt(0)
    /\ call.ret = << call.grad_h[2], RNeg(call.grad_h[1]) >>
    /\ RDot(call.grad_g, call.ret) = RInt(0)

InSegments == call.f = "get_feasible_contour_segments"

Returned == InSegments /\ call.at = "returned"

\* value of the condition function at vertex i of path p
Cond(p, i) == condition_func(call.condition_func, call.paths[p][i])

\* the maximal runs << p, a, b >> of at least minlen consecutive vertices
\* a .. b of path p at which the condition function is >= lim
Runs(lim, minlen) ==
    LET RunsOf(p) ==
            LET n == Len(call.paths[p])
            IN  { r \in { << p, a, b >> : a \in 1 .. n, b \in 1 .. n } :
                    /\ r[3] - r[2] + 1 >= minlen
                    /\ r[2] = 1 \/ Cond(p, r[2] - 1) < lim
                    /\ r[3] = n \/ Cond(p, r[3] + 1) < lim
                    /\ \A k \in r[2] .. r[3] : Cond(p, k) >= lim }
    IN  UNION { RunsOf(p) : p \in 1 .. Len(call.paths) }

\* the vertices of a run, in order
RunAt(r) == [k \in 1 .. (r[3] - r[2] + 1) |-> << r[1], r[2] + k - 1 >>]

\* the vertices (path, index) stored in the segments collected so far
Kept == UNION { { sg.at[j] : j \in DOMAIN sg.at } :
                  sg \in { call.segments[k] : k \in DOMAIN call.segments } }

\* all vertices (path, index) of the paths yielded so far
AllVerts ==
    UNION { { << p, i >> : i \in 1 .. Len(call.paths[p]) } :
              p \in 1 .. Len(call.paths) }

RECURSIVE Flat(_)
Flat(segs) == IF segs = << >> THEN << >> ELSE Head(segs).at \o Flat(Tail(segs))

\* vertex u comes before vertex v: earlier path, or same path and smaller
\* index
Before(u, v) == u[1] < v[1] \/ (u[1] = v[1] /\ u[2] < v[2])

\* C18: during the inner loop in_segment is true exactly when seg_x (and
\* seg_y) is non-empty; on return the vertices of the segments are listed
\* in path order and then vertex order with no vertex twice, and each
\* segment is a contiguous run of vertices of one path, all above the
\* threshold.
C18_SegmentsDisjointOrdered ==
    InSegments =>
        /\ call.at = "for_i" =>
               /\ call.in_segment <=> call.seg_x # << >>
               /\ call.in_segment <=> call.seg_y # << >>
        /\ call.at = "returned" =>
               /\ \A m, n \in DOMAIN Flat(call.ret) :
                      m < n => Before(Flat(call.ret)[m], Flat(call.ret)[n])
               /\ \A k \in DOMAIN call.ret :
                      /\ \A j \in DOMAIN call.ret[k].at :
                             /\ call.ret[k].at[j] \in AllVerts
                             /\ Cond(call.ret[k].at[j][1],
                                     call.ret[k].at[j][2]) >= threshold
                             /\ j > 1 =>
                                    call.ret[k].at[j]
                                        = << call.ret[k].at[j - 1][1],
                                             call.ret[k].at[j - 1][2] + 1 >>

\* the function has returned two segments of one path, separated by a
\* vertex below the threshold
C18_Witness ==
    /\ Returned
    /\ Len(call.ret) = 2
    /\ call.ret[1].at[1][1] = call.ret[2].at[1][1]
    /\ Len(call.ret[1].at) = 2
    /\ Cond(call.ret[1].at[1][1], 3) < threshold
    /\ call.ret[2].at[1][2] = 4

\* centres of the circles g1 = 0 and g2 = 0
Centre1 == << R(1, 2), R(3, 2) >>

Centre2 == << R(1, 2), R(-1, 2) >>

\* the displacement of an arrow
Along(a) == << RSub(a.to[1], a.from[1]), RSub(a.to[2], a.from[2]) >>

\* the arrow a points from its start towards the point c
Towards(a, c) ==
    RLt(RInt(0), RDot(Along(a), << RSub(c[1], a.from[1]),
                                   RSub(c[2], a.from[2]) >>))

C20_TangentAtXStar ==
    /\ g1(x_star_licq[1], x_star_licq[2]) = RInt(0)
    /\ g2(x_star_licq[1], x_star_licq[2]) = RInt(0)
    /\ g1(Centre1[1], Centre1[2]) = RInt(-1)
    /\ g2(Centre2[1], Centre2[2]) = RInt(-1)
    /\ gradient_g1(Centre1[1], Centre1[2]) = << RInt(0), RInt(0) >>
    /\ gradient_g2(Centre2[1], Centre2[2]) = << RInt(0), RInt(0) >>
    /\ RAdd(RSq(RSub(Centre1[1], Centre2[1])), RSq(RSub(Centre1[2], Centre2[2])))
           = RSq(RAdd(RInt(1), RInt(1)))
    /\ Det(gradient_g1(x_star_licq[1], x_star_licq[2]),
           gradient_g2(x_star_licq[1], x_star_licq[2])) = RInt(0)
    /\ call.f = "g1_g2" =>
           /\ call.ret = << RInt(0), RInt(0) >>
                  <=> << call.x, call.y >> = x_star_licq
           \* g1 - g2 = 2 - 4y: a common zero has y = 0.5
           /\ RSub(call.ret[1], call.ret[2])
                  = RSub(RInt(2), RMul(RInt(4), call.y))

\* both constraints have been evaluated at x* and both are 0 there
C20_Witness ==
    /\ call.f = "g1_g2"
    /\ << call.x, call.y >> = x_star_licq
    /\ call.ret = << RInt(0), RInt(0) >>

OnGrid == call.x \in GridXs /\ call.y \in GridYs

\* the nodes of the grid are x_i = -1 + 3i/799, y_j = -0.5 + 3j/799,
\* 0 <= i, j <= 799
GridAsStated ==
    /\ GridXs = { RAdd(RInt(-1), R(3 * i, 799)) : i \in 0 .. 799 }
    /\ GridYs = { RAdd(R(-1, 2), R(3 * j, 799)) : j \in 0 .. 799 }
    /\ Cardinality(GridXs) = 800
    /\ Cardinality(GridYs) = 800

\* C21: g1 <= 0 and g2 <= 0 hold together only at x* = (0.5, 0.5) (at every
\* point g1 + g2 = 2 (x - 0.5)^2 + 2 (y - 0.5)^2); x* is not a node of the
\* 800 x 800 grid x_i = -1 + 3i/799, y_j = -0.5 + 3j/799; the feasible mask
\* is 0 at every node; the point (0.5, 1.0) of the 'Feasible Region' label
\* is not feasible.
C21_FeasibleSetIsXStar ==
    /\ GridAsStated
    /\ x_star_licq[2] \notin GridYs
    /\ feasible(g1(feasible_label[1], feasible_label[2]),
                g2(feasible_label[1], feasible_label[2])) = 0
    /\ call.f = "feasible" =>
           /\ call.ret[3] = 1 <=> (call.ret[1].n <= 0 /\ call.ret[2].n <= 0)
           /\ call.ret[3] = 1 <=> << call.x, call.y >> = x_star_licq
           /\ OnGrid => call.ret[3] = 0
           /\ (call.x \in Pts /\ call.y \in Pts) =>
                  RAdd(call.ret[1], call.ret[2])
                      = RMul(RInt(2), RAdd(RSq(RSub(call.x, R(1, 2))),
                                           RSq(RSub(call.y, R(1, 2)))))

\* the mask has been evaluated at a node of the grid that lies inside
\* circle 2 and within 0.002 of x* in both coordinates: it is 0 there
C21_Witness ==
    /\ call.f = "feasible"
    /\ OnGrid
    /\ call.ret[3] = 0
    /\ RLt(call.ret[2], RInt(0))
    /\ RLt(RInt(0), call.ret[1])
    /\ RLt(RAbs(RSub(call.x, R(1, 2))), R(2, 1000))
    /\ RLt(RAbs(RSub(call.y, R(1, 2))), R(2, 1000))

(***************************************************************************)
(* Cones and polar cones.  The unit directions at angles a and b have      *)
(* inner product cos(a - b), which is <= 0 exactly when a - b, reduced     *)
(* mod 360 degrees, lies in [90, 270] degrees.  Angles are in units of     *)
(* 1/(n - 1) degree, n the number of samples of the cone's arc.            *)
(***************************************************************************)
InGcq == script = "gcq_illustration"

InMpecGcq == script = "mpec_gcq"

Turn(n) == 360 * (n - 1)

NonPositive(a, b, n) ==
    LET d == (a - b) % Turn(n)
    IN  90 * (n - 1) <= d /\ d <= 270 * (n - 1)

\* the direction at angle a lies in the cone c
InCone(c, a) ==
    (a - c.angle1 * (c.n - 1)) % Turn(c.n)
        <= (c.angle2 - c.angle1) * (c.n - 1)

\* every whole degree, and the sampled angles of the cones drawn
Dirs(n, cones) ==
    { k * (n - 1) : k \in 0 .. 359 }
        \cup UNION { { c.angles[k] % Turn(n) : k \in 1 .. c.n } : c \in cones }

ConeDirs(c, cones) == { a \in Dirs(c.n, cones) : InCone(c, a) }

Polar(c, cones) ==
    { a \in Dirs(c.n, cones) :
        \A b \in ConeDirs(c, cones) : NonPositive(a, b, c.n) }

\* C22: in gcq_illustration the cone drawn as T(x*)° (165° to 245°) is
\* the polar cone of the drawn T(x*) (25° to 75°): a direction is in it
\* exactly when its inner product with every direction of T(x*) is <= 0,
\* and it spans [beta + 90°, alpha + 270°] for T(x*) = [alpha, beta].
C22_TPolarIsPolar ==
    (InGcq /\ "T_polar" \in DOMAIN env) =>
        LET cones == { env.T, env.T_polar }
        IN  /\ env.T.angle1 = 25 /\ env.T.angle2 = 75
            /\ env.T_polar.angle1 = 165 /\ env.T_polar.angle2 = 245
            /\ ConeDirs(env.T_polar, cones) = Polar(env.T, cones)
            /\ env.T_polar.angle1 = env.T.angle2 + 90
            /\ env.T_polar.angle2 = env.T.angle1 + 270

\* C23: in gcq_illustration the cone drawn as L(x*)° coincides with the
\* drawn T(x*)° and is the polar cone of the drawn L(x*) (10° to 90°):
\* each of its directions has inner product <= 0 with every direction of
\* L(x*).
C23_LPolarIsPolar ==
    (InGcq /\ "L_polar" \in DOMAIN env) =>
        LET cones == { env.L, env.L_polar }
        IN  /\ env.L.angle1 = 10 /\ env.L.angle2 = 90
            /\ env.L_polar.angle1 = env.T_polar.angle1
            /\ env.L_polar.angle2 = env.T_polar.angle2
            /\ env.L_polar.angles = env.T_polar.angles
            /\ \A a \in ConeDirs(env.L_polar, cones) :
                   \A b \in ConeDirs(env.L, cones) :
                       NonPositive(a, b, env.L.n)

\* C24: in mpec_gcq the cone drawn as T(x*)° (theta1_end + 90 = 105° to
\* theta2_start + 90 = 140°) is the polar of the drawn primal cone: each
\* of its directions has inner product <= 0 with every direction of the
\* two wedges [-30°, 15°] and [50°, 95°].
C24_PolarOfUnion ==
    (InMpecGcq /\ "polar" \in DOMAIN env) =>
        LET cones == { env.wedge1, env.wedge2, env.polar }
        IN  /\ env.wedge1.angle1 = -30 /\ env.wedge1.angle2 = 15
            /\ env.wedge2.angle1 = 50 /\ env.wedge2.angle2 = 95
            /\ env.polar.angle1 = 105 /\ env.polar.angle2 = 140
            /\ \A a \in ConeDirs(env.polar, cones) :
                   \A b \in ConeDirs(env.wedge1, cones)
                            \cup ConeDirs(env.wedge2, cones) :
                       NonPositive(a, b, env.polar.n)

====
